---- MODULE Spec2Model ----
(***************************************************************************)
(* AudioHandler (src/audio_handler.py): a handle over one audio file that  *)
(* reads and writes song info and lyrics through the mutagen tag library.  *)
(*                                                                         *)
(* The state is the file on disk (its name, whether it exists, whether its *)
(* audio stream can be parsed, its ID3 tag and its Vorbis comments), the   *)
(* live handle (file_path, file_type, the lazily loaded _audio object) and *)
(* the observation of the last call (op, arg, ret, err).                   *)
(***************************************************************************)
EXTENDS Integers, Sequences, FiniteSets, TLC

(* ------------------------------ bounds -------------------------------- *)

\* Distinct texts a caller writes into each song-info field.
NumTexts == 1

\* Distinct lyric texts a caller writes.
NumLyrics == 2

\* USLT frames the file may hold before the handle is constructed.
MaxUSLT == 2

(* ------------------------------ values -------------------------------- *)

\* Python's None, as the value of an Optional[str] field.
None == "<None>"

\* The empty string, the default of id3.get(key, "").
EmptyStr == ""

Fields == {"title", "artist", "album", "genre"}

TitlePool == <<"T1", "T2", "T3">>
ArtistPool == <<"R1", "R2", "R3">>
AlbumPool == <<"L1", "L2", "L3">>
GenrePool == <<"G1", "G2", "G3">>
LyricPool == <<"W1", "W2", "W3">>
LangPool == <<"eng", "chi", "jpn">>

Versions == 1..NumTexts

\* SongInfo: four optional strings, None by default.
SongInfo(t, a, l, g) == [title |-> t, artist |-> a, album |-> l, genre |-> g]

EmptySongInfo == SongInfo(None, None, None, None)

\* Lyrics: text and language; NoLyrics stands for a returned None.
Lyrics(t, l) == [text |-> t, lang |-> l]

NoLyrics == Lyrics(None, None)

\* The SongInfo arguments of the model: every non-empty subset of the fields
\* present, each present field carrying the text of its own pool at one
\* version.
SongInfoArgs ==
    { SongInfo(IF "title" \in m THEN TitlePool[v] ELSE None,
               IF "artist" \in m THEN ArtistPool[v] ELSE None,
               IF "album" \in m THEN AlbumPool[v] ELSE None,
               IF "genre" \in m THEN GenrePool[v] ELSE None)
      : m \in (SUBSET Fields) \ {{}}, v \in Versions }

\* The set_lyrics arguments: a bare str, or a Lyrics object.
LyricsArgs ==
    { [isStr |-> TRUE, text |-> LyricPool[v], lang |-> None]
      : v \in 1..NumLyrics }
    \cup
    { [isStr |-> FALSE, text |-> LyricPool[v], lang |-> LangPool[k]]
      : v \in 1..NumLyrics, k \in 1..2 }

NoArg == [none |-> TRUE]

(* ------------------------------ tag values ---------------------------- *)

\* An ID3 tag: header is FALSE for a file without an ID3 header (the MP3
\* object's tags is then None); a frame that is not there is None; USLT is
\* the list of unsynchronized-lyrics frames in getall order.
ID3(h, t, a, l, g, u) ==
    [header |-> h, TIT2 |-> t, TPE1 |-> a, TALB |-> l, TCON |-> g, USLT |-> u]

NoHeader == ID3(FALSE, None, None, None, None, << >>)

\* ID3(): a new, empty tag.
NewID3 == ID3(TRUE, None, None, None, None, << >>)

\* Vorbis comments: each key maps to its list of values, empty when absent.
VComment(t, a, l, g, y, d) ==
    [TITLE |-> t, ARTIST |-> a, ALBUM |-> l, GENRE |-> g,
     LYRICS |-> y, DESCRIPTION |-> d]

NoComments == VComment(<< >>, << >>, << >>, << >>, << >>, << >>)

\* The attributes the handler sets on a WAVE object's stream info.
NoAttrs == [title |-> None, artist |-> None, album |-> None, genre |-> None,
            lyrics |-> None]

\* self._audio = None
NotLoaded == [loaded |-> FALSE, tags |-> NoHeader, vc |-> NoComments,
              info |-> NoAttrs]

VARIABLES
    fname,      \* the suffix of the path given to the constructor
    fsExists,   \* whether that path exists
    streamOk,   \* whether mutagen can parse the file's audio stream
    id3,        \* the ID3 tag of the file on disk (MP3)
    vc,         \* the Vorbis comments of the file on disk (FLAC)
    hstate,     \* "none", "live" or "failed": the handle
    file_path,  \* self.file_path
    file_type,  \* self.file_type
    _audio,     \* self._audio
    parses,     \* times MutagenFile built this handle's _audio
    op,         \* the last call
    arg,        \* its argument
    ret,        \* its return value
    err         \* the exception it raised, "none" if it returned

vars == <<fname, fsExists, streamOk, id3, vc, hstate, file_path, file_type,
          _audio, parses, op, arg, ret, err>>

disk == <<fname, fsExists, streamOk, id3, vc>>

(* ------------------------------ construction -------------------------- *)

Suffixes == {".mp3", ".MP3", ".flac", ".wav", ".wave", ".ogg", ""}

\* str.lower() on the suffixes of the model.
Lower(s) == IF s = ".MP3" THEN ".mp3" ELSE s

\* format_map.get(suffix): None when the suffix is no key.
format_map(s) ==
    CASE s = ".mp3" -> "mp3"
      [] s = ".wav" -> "wav"
      [] s = ".wave" -> "wav"
      [] s = ".flac" -> "flac"
      [] OTHER -> None

SUPPORTED_FORMATS == {"mp3", "wav", "flac"}

_detect_format(p) == format_map(Lower(p))

\* The ID3 tags a file may start with.
InitID3 ==
    {NoHeader}
    \cup
    { ID3(TRUE, "A", "B", None, None,
          [i \in 1..k |-> Lyrics("W0", LangPool[i])]) : k \in 0..MaxUSLT }

\* The Vorbis comments a file may start with.
InitVC ==
    { VComment(IF i THEN <<"A", "A2">> ELSE << >>,
               IF i THEN <<"B">> ELSE << >>,
               << >>, << >>,
               IF y THEN <<"W0", "W9">> ELSE << >>,
               IF d THEN (IF y THEN <<"D1">> ELSE <<"D0">>) ELSE << >>)
      : i \in BOOLEAN, y \in BOOLEAN, d \in BOOLEAN }

Init ==
    /\ fname \in Suffixes
    /\ fsExists \in BOOLEAN
    /\ streamOk \in (IF fsExists /\ _detect_format(fname) # None
                     THEN BOOLEAN ELSE {FALSE})
    /\ id3 \in (IF fsExists /\ _detect_format(fname) = "mp3"
                THEN InitID3 ELSE {NoHeader})
    /\ vc \in (IF fsExists /\ _detect_format(fname) = "flac"
               THEN InitVC ELSE {NoComments})
    /\ hstate = "none"
    /\ file_path = None
    /\ file_type = None
    /\ _audio = NotLoaded
    /\ parses = 0
    /\ op = "none"
    /\ arg = NoArg
    /\ ret = NoArg
    /\ err = "none"

\* __init__ with the two checks in the other order.
InitErrorFormatFirst(exists, p) ==
    IF _detect_format(p) \notin SUPPORTED_FORMATS
    THEN "UnsupportedFormatError"
    ELSE IF ~exists THEN "FileNotFoundError" ELSE "none"

\* What __init__ raises for a path.
InitError(exists, p) ==
    IF ~exists THEN "FileNotFoundError"
    ELSE IF _detect_format(p) \notin SUPPORTED_FORMATS
         THEN "UnsupportedFormatError"
         ELSE "none"

\* __init__ parsing the file at once instead of on first use.
ConstructEager ==
    /\ op' = "__init__"
    /\ arg' = NoArg
    /\ ret' = NoArg
    /\ err' = InitError(fsExists, fname)
    /\ hstate' = IF err' = "none" THEN "live" ELSE "failed"
    /\ file_path' = fname
    /\ file_type' = IF fsExists THEN _detect_format(fname) ELSE None
    /\ _audio' = IF err' = "none" /\ streamOk
                 THEN [loaded |-> TRUE,
                       tags |-> IF file_type' = "mp3" THEN id3 ELSE NoHeader,
                       vc |-> IF file_type' = "flac" THEN vc ELSE NoComments,
                       info |-> NoAttrs]
                 ELSE NotLoaded
    /\ parses' = IF _audio'.loaded THEN 1 ELSE 0
    /\ UNCHANGED disk

\* AudioHandler(file_path): a new handle on the file.
Construct ==
    /\ op' = "__init__"
    /\ arg' = NoArg
    /\ ret' = NoArg
    /\ err' = InitError(fsExists, fname)
    /\ hstate' = IF err' = "none" THEN "live" ELSE "failed"
    /\ file_path' = fname
    /\ file_type' = IF fsExists THEN _detect_format(fname) ELSE None
    /\ _audio' = NotLoaded
    /\ parses' = 0
    /\ UNCHANGED disk

(* ---------------------------- the tag library ------------------------- *)

\* MutagenFile(path) for a path of format t: the object parsed from the file
\* as it is on disk at the time of the call.  A WAVE object's stream info
\* carries none of the attributes the handler looks for.
MutagenFile(t, d3, dvc) ==
    [loaded |-> TRUE,
     tags |-> IF t = "mp3" THEN d3 ELSE NoHeader,
     vc |-> IF t = "flac" THEN dvc ELSE NoComments,
     info |-> NoAttrs]

\* The audio property raises when it has to parse (self._audio is None) a
\* file whose stream mutagen rejects; nothing wraps the library's error.
AudioRaises(a, ok) == ~a.loaded /\ ~ok

\* The audio property without its cache: the file is parsed at every access.
audioReparse(a, t, d3, dvc) == MutagenFile(t, d3, dvc)

\* The audio property: the cached object, parsed on first use.
audio(a, t, d3, dvc) == IF a.loaded THEN a ELSE MutagenFile(t, d3, dvc)

\* How many times this handle's object has been built after the access.
ParsesAfter(a, n) == IF a.loaded THEN n ELSE n + 1

\* try: ID3(path) except ID3NoHeaderError: ID3()
OpenID3(d3) == IF d3.header THEN d3 ELSE NewID3

\* tag.save(path): the file's ID3 tag becomes the tag's frames, under a
\* header that is written whether or not the file had one.
SaveID3(t) == [t EXCEPT !.header = TRUE]

\* self.audio.save() on an MP3 object: FileType.save writes the object's own
\* tags over the file's, and does nothing when the object has no tags.
AudioSaveMp3(a, d3) == IF a.tags.header THEN SaveID3(a.tags) ELSE d3

\* str(id3.get(key, "")): the frame's text, or "" when the frame is not there.
FrameStr(f) == IF f = None THEN EmptyStr ELSE f

\* audio.get(key, [None])[0]
FirstOrNone(l) == IF l = << >> THEN None ELSE l[1]

(* ----------------------------- song info ------------------------------ *)

_get_song_info_mp3(d3) ==
    IF d3.header
    THEN SongInfo(FrameStr(d3.TIT2), FrameStr(d3.TPE1), FrameStr(d3.TALB),
                  FrameStr(d3.TCON))
    ELSE EmptySongInfo

_get_song_info_flac(a) ==
    SongInfo(FirstOrNone(a.vc.TITLE), FirstOrNone(a.vc.ARTIST),
             FirstOrNone(a.vc.ALBUM), FirstOrNone(a.vc.GENRE))

_get_song_info_wav(a) ==
    SongInfo(a.info.title, a.info.artist, a.info.album, a.info.genre)

\* The frames of the tag after the four "is not None" assignments.
_set_song_info_mp3(d3, x) ==
    [OpenID3(d3) EXCEPT
        !.TIT2 = IF x.title # None THEN x.title ELSE @,
        !.TPE1 = IF x.artist # None THEN x.artist ELSE @,
        !.TALB = IF x.album # None THEN x.album ELSE @,
        !.TCON = IF x.genre # None THEN x.genre ELSE @]

_set_song_info_flac(a, x) ==
    [a EXCEPT
        !.vc.TITLE = IF x.title # None THEN <<x.title>> ELSE @,
        !.vc.ARTIST = IF x.artist # None THEN <<x.artist>> ELSE @,
        !.vc.ALBUM = IF x.album # None THEN <<x.album>> ELSE @,
        !.vc.GENRE = IF x.genre # None THEN <<x.genre>> ELSE @]

_set_song_info_wav(a, x) ==
    [a EXCEPT
        !.info.title = IF x.title # None THEN x.title ELSE @,
        !.info.artist = IF x.artist # None THEN x.artist ELSE @,
        !.info.album = IF x.album # None THEN x.album ELSE @,
        !.info.genre = IF x.genre # None THEN x.genre ELSE @]

\* A call that raises the library's error before it changed anything.
RaisesUntouched ==
    /\ err' = "MutagenError"
    /\ ret' = NoArg
    /\ UNCHANGED <<id3, vc, _audio, parses>>

get_song_info ==
    /\ hstate = "live"
    /\ op' = "get_song_info"
    /\ arg' = NoArg
    /\ \/ /\ file_type = "mp3"
          /\ ret' = _get_song_info_mp3(id3)
          /\ err' = "none"
          /\ UNCHANGED <<id3, vc, _audio, parses>>
       \/ /\ file_type \in {"flac", "wav"}
          /\ IF AudioRaises(_audio, streamOk)
             THEN RaisesUntouched
             ELSE /\ _audio' = audio(_audio, file_type, id3, vc)
                  /\ parses' = ParsesAfter(_audio, parses)
                  /\ ret' = IF file_type = "flac"
                            THEN _get_song_info_flac(_audio')
                            ELSE _get_song_info_wav(_audio')
                  /\ err' = "none"
                  /\ UNCHANGED <<id3, vc>>
    /\ UNCHANGED <<fname, fsExists, streamOk, hstate, file_path, file_type>>

set_song_info(x) ==
    /\ hstate = "live"
    /\ op' = "set_song_info"
    /\ arg' = x
    /\ ret' = NoArg
    /\ \/ /\ file_type = "mp3"
          /\ LET d1 == SaveID3(_set_song_info_mp3(id3, x)) IN
                IF AudioRaises(_audio, streamOk)
                THEN /\ id3' = d1
                     /\ err' = "MutagenError"
                     /\ UNCHANGED <<_audio, parses>>
                ELSE /\ _audio' = audio(_audio, file_type, d1, vc)
                     /\ parses' = ParsesAfter(_audio, parses)
                     /\ id3' = AudioSaveMp3(_audio', d1)
                     /\ err' = "none"
          /\ UNCHANGED vc
       \/ /\ file_type = "flac"
          /\ IF AudioRaises(_audio, streamOk)
             THEN RaisesUntouched
             ELSE /\ _audio' = _set_song_info_flac(
                                   audio(_audio, file_type, id3, vc), x)
                  /\ parses' = ParsesAfter(_audio, parses)
                  /\ vc' = _audio'.vc
                  /\ err' = "none"
                  /\ UNCHANGED id3
       \/ /\ file_type = "wav"
          /\ IF AudioRaises(_audio, streamOk)
             THEN RaisesUntouched
             ELSE /\ _audio' = _set_song_info_wav(
                                   audio(_audio, file_type, id3, vc), x)
                  /\ parses' = ParsesAfter(_audio, parses)
                  /\ err' = "none"
                  /\ UNCHANGED <<id3, vc>>
    /\ UNCHANGED <<fname, fsExists, streamOk, hstate, file_path, file_type>>

(* ------------------------------- lyrics ------------------------------- *)

\* Lyrics(text=lyrics) for a str, the object itself otherwise.
lyrics_obj(l) == IF l.isStr THEN Lyrics(l.text, "eng") ELSE Lyrics(l.text, l.lang)

_get_lyrics_mp3(d3) ==
    IF d3.header /\ d3.USLT # << >>
    THEN Lyrics(d3.USLT[1].text, d3.USLT[1].lang)
    ELSE NoLyrics

\* The FLAC lookup with DESCRIPTION tried before LYRICS.
_get_lyrics_flac_desc_first(a) ==
    IF a.vc.DESCRIPTION # << >> THEN Lyrics(a.vc.DESCRIPTION[1], "eng")
    ELSE IF a.vc.LYRICS # << >> THEN Lyrics(a.vc.LYRICS[1], "eng")
    ELSE NoLyrics

_get_lyrics_flac(a) ==
    IF a.vc.LYRICS # << >> THEN Lyrics(a.vc.LYRICS[1], "eng")
    ELSE IF a.vc.DESCRIPTION # << >> THEN Lyrics(a.vc.DESCRIPTION[1], "eng")
    ELSE NoLyrics

_get_lyrics_wav(a) ==
    IF a.info.lyrics # None /\ a.info.lyrics # EmptyStr
    THEN Lyrics(a.info.lyrics, "eng")
    ELSE NoLyrics

\* delall("USLT"), then the one new frame.
_set_lyrics_mp3(d3, l) == [OpenID3(d3) EXCEPT !.USLT = <<Lyrics(l.text, l.lang)>>]

_set_lyrics_flac(a, l) == [a EXCEPT !.vc.LYRICS = <<l.text>>]

_set_lyrics_wav(a, l) == [a EXCEPT !.info.lyrics = l.text]

get_lyrics ==
    /\ hstate = "live"
    /\ op' = "get_lyrics"
    /\ arg' = NoArg
    /\ \/ /\ file_type = "mp3"
          /\ ret' = _get_lyrics_mp3(id3)
          /\ err' = "none"
          /\ UNCHANGED <<id3, vc, _audio, parses>>
       \/ /\ file_type \in {"flac", "wav"}
          /\ IF AudioRaises(_audio, streamOk)
             THEN RaisesUntouched
             ELSE /\ _audio' = audio(_audio, file_type, id3, vc)
                  /\ parses' = ParsesAfter(_audio, parses)
                  /\ ret' = IF file_type = "flac"
                            THEN _get_lyrics_flac(_audio')
                            ELSE _get_lyrics_wav(_audio')
                  /\ err' = "none"
                  /\ UNCHANGED <<id3, vc>>
    /\ UNCHANGED <<fname, fsExists, streamOk, hstate, file_path, file_type>>

set_lyrics(l) ==
    /\ hstate = "live"
    /\ op' = "set_lyrics"
    /\ arg' = lyrics_obj(l)
    /\ ret' = NoArg
    /\ \/ /\ file_type = "mp3"
          /\ LET d1 == SaveID3(_set_lyrics_mp3(id3, lyrics_obj(l))) IN
                IF AudioRaises(_audio, streamOk)
                THEN /\ id3' = d1
                     /\ err' = "MutagenError"
                     /\ UNCHANGED <<_audio, parses>>
                ELSE /\ _audio' = audio(_audio, file_type, d1, vc)
                     /\ parses' = ParsesAfter(_audio, parses)
                     /\ id3' = AudioSaveMp3(_audio', d1)
                     /\ err' = "none"
          /\ UNCHANGED vc
       \/ /\ file_type = "flac"
          /\ IF AudioRaises(_audio, streamOk)
             THEN RaisesUntouched
             ELSE /\ _audio' = _set_lyrics_flac(
                                   audio(_audio, file_type, id3, vc),
                                   lyrics_obj(l))
                  /\ parses' = ParsesAfter(_audio, parses)
                  /\ vc' = _audio'.vc
                  /\ err' = "none"
                  /\ UNCHANGED id3
       \/ /\ file_type = "wav"
          /\ IF AudioRaises(_audio, streamOk)
             THEN RaisesUntouched
             ELSE /\ _audio' = _set_lyrics_wav(
                                   audio(_audio, file_type, id3, vc),
                                   lyrics_obj(l))
                  /\ parses' = ParsesAfter(_audio, parses)
                  /\ err' = "none"
                  /\ UNCHANGED <<id3, vc>>
    /\ UNCHANGED <<fname, fsExists, streamOk, hstate, file_path, file_type>>

(* ----------------------------- audio info ----------------------------- *)

\* The keys of the result: the three that are always there, and those the
\* stream info of the parsed object has.
AudioInfo(p, t) ==
    [file_path |-> p, format |-> t,
     keys |-> {"file_path", "format", "file_size",
               "duration", "bitrate", "sample_rate"}]

get_audio_info ==
    /\ hstate = "live"
    /\ op' = "get_audio_info"
    /\ arg' = NoArg
    /\ IF AudioRaises(_audio, streamOk)
       THEN RaisesUntouched
       ELSE /\ _audio' = audio(_audio, file_type, id3, vc)
            /\ parses' = ParsesAfter(_audio, parses)
            /\ ret' = AudioInfo(file_path, file_type)
            /\ err' = "none"
            /\ UNCHANGED <<id3, vc>>
    /\ UNCHANGED <<fname, fsExists, streamOk, hstate, file_path, file_type>>

Next ==
    \/ Construct
    \/ get_song_info
    \/ \E x \in SongInfoArgs : set_song_info(x)
    \/ get_lyrics
    \/ \E l \in LyricsArgs : set_lyrics(l)
    \/ get_audio_info

(* ------------------------------- claims ------------------------------- *)

Reads == {"get_song_info", "get_lyrics", "get_audio_info"}

Writes == {"set_song_info", "set_lyrics"}

FullyPopulated(x) ==
    x.title # None /\ x.artist # None /\ x.album # None /\ x.genre # None

\* C1: for every format, get_song_info() right after a set_song_info(x) that
\* returned, x fully populated, returns x, whatever the handle did before.
C1_RoundTrip ==
    [][(/\ op = "set_song_info"
        /\ err = "none"
        /\ FullyPopulated(arg)
        /\ op' = "get_song_info"
        /\ err' = "none") => ret' = arg]_vars

\* C2: set_song_info that returned changed in the file exactly the fields
\* that are not None in its argument, and left the others as they were
\* (MP3 frames and FLAC comments, the tags the file stores).
C2_PartialUpdate ==
    [][(op' = "set_song_info" /\ err' = "none") =>
        /\ file_type = "mp3" =>
            /\ id3'.TIT2 = (IF arg'.title # None THEN arg'.title ELSE id3.TIT2)
            /\ id3'.TPE1 = (IF arg'.artist # None THEN arg'.artist ELSE id3.TPE1)
            /\ id3'.TALB = (IF arg'.album # None THEN arg'.album ELSE id3.TALB)
            /\ id3'.TCON = (IF arg'.genre # None THEN arg'.genre ELSE id3.TCON)
        /\ file_type = "flac" =>
            /\ vc'.TITLE = (IF arg'.title # None THEN <<arg'.title>> ELSE vc.TITLE)
            /\ vc'.ARTIST = (IF arg'.artist # None THEN <<arg'.artist>> ELSE vc.ARTIST)
            /\ vc'.ALBUM = (IF arg'.album # None THEN <<arg'.album>> ELSE vc.ALBUM)
            /\ vc'.GENRE = (IF arg'.genre # None THEN <<arg'.genre>> ELSE vc.GENRE)]_vars

\* C3: after a set_lyrics that returned on an MP3 file, the file holds
\* exactly one USLT frame, with the text and the language of that call.
C3_LyricsReplaceAll ==
    (op = "set_lyrics" /\ file_type = "mp3" /\ err = "none") =>
        /\ id3.header
        /\ Len(id3.USLT) = 1
        /\ id3.USLT[1] = arg

\* C4: construction fails with the not-found error when the path does not
\* exist (whatever its extension), else with UnsupportedFormatError when the
\* lower-cased extension is none of .mp3, .wav, .wave, .flac, else succeeds
\* with the format of the extension; a failed construction has parsed
\* nothing, and no construction touches the file.
C4_ConstructionOutcome ==
    [][op' = "__init__" =>
        /\ UNCHANGED disk
        /\ ~_audio'.loaded
        /\ parses' = 0
        /\ IF ~fsExists
           THEN err' = "FileNotFoundError" /\ hstate' = "failed"
           ELSE IF fname \notin {".mp3", ".MP3", ".wav", ".wave", ".flac"}
           THEN err' = "UnsupportedFormatError" /\ hstate' = "failed"
           ELSE /\ err' = "none"
                /\ hstate' = "live"
                /\ fname \in {".mp3", ".MP3"} => file_type' = "mp3"
                /\ fname = ".flac" => file_type' = "flac"
                /\ fname \in {".wav", ".wave"} => file_type' = "wav"]_vars

\* The path does not exist and its extension is unsupported: not-found.
C4_Witness ==
    /\ op = "__init__"
    /\ ~fsExists
    /\ fname = ".ogg"
    /\ err = "FileNotFoundError"
    /\ hstate = "failed"

\* What get_song_info / get_lyrics return on a new handle on the file.
FreshSongInfo ==
    CASE file_type = "mp3" -> _get_song_info_mp3(id3)
      [] file_type = "flac" ->
            _get_song_info_flac(MutagenFile("flac", id3, vc))
      [] OTHER -> _get_song_info_wav(MutagenFile("wav", id3, vc))

FreshLyrics ==
    CASE file_type = "mp3" -> _get_lyrics_mp3(id3)
      [] file_type = "flac" -> _get_lyrics_flac(MutagenFile("flac", id3, vc))
      [] OTHER -> _get_lyrics_wav(MutagenFile("wav", id3, vc))

\* C5: when set_song_info or set_lyrics has returned, a new handle on the
\* same path reads the written values back from the file.
C5_Persistence ==
    /\ (op = "set_song_info" /\ err = "none") =>
        /\ arg.title # None => FreshSongInfo.title = arg.title
        /\ arg.artist # None => FreshSongInfo.artist = arg.artist
        /\ arg.album # None => FreshSongInfo.album = arg.album
        /\ arg.genre # None => FreshSongInfo.genre = arg.genre
    /\ (op = "set_lyrics" /\ err = "none") => FreshLyrics.text = arg.text

\* The calls that go through the audio property.
UsesAudio(o, t) ==
    \/ o \in Writes
    \/ o = "get_audio_info"
    \/ o \in {"get_song_info", "get_lyrics"} /\ t \in {"flac", "wav"}

\* C6 as stated: every read or write call that returned, of any format,
\* leaves the handle parsed.
C6_AnyCallParses ==
    (hstate = "live" /\ op \in Reads \cup Writes /\ err = "none")
        => _audio.loaded

\* C6, amended: a new handle is not parsed; a call that returned and goes
\* through the audio property (every write, get_audio_info, and the FLAC and
\* WAV get_song_info / get_lyrics) leaves it parsed; get_song_info and
\* get_lyrics of an MP3 handle leave it as it was; the object is built at
\* most once per handle and a parsed handle stays parsed.
C6_LazyAudio ==
    /\ [](/\ op = "__init__" => (~_audio.loaded /\ parses = 0)
          /\ parses = (IF _audio.loaded THEN 1 ELSE 0)
          /\ (/\ hstate = "live"
              /\ op \in Reads \cup Writes
              /\ err = "none"
              /\ UsesAudio(op, file_type)) => _audio.loaded)
    /\ [][op' # "__init__" =>
            /\ _audio.loaded => (_audio'.loaded /\ parses' = parses)
            /\ (file_type = "mp3" /\ op' \in {"get_song_info", "get_lyrics"})
                    => _audio' = _audio]_vars

\* An MP3 handle that has read song info and is still not parsed.
C6_Witness ==
    /\ hstate = "live"
    /\ file_type = "mp3"
    /\ op = "get_song_info"
    /\ err = "none"
    /\ ~_audio.loaded

\* C7: whatever a caller sees raised is the not-found error,
\* UnsupportedFormatError or the base AudioHandlerError.
C7_ClosedTaxonomy ==
    err \in {"none", "FileNotFoundError", "UnsupportedFormatError",
             "AudioHandlerError"}

\* C8: get_song_info on an MP3 file never raises, returns None for each
\* field whose frame is not in the file and the frame's text otherwise.
C8_PermissiveMp3Read ==
    (op = "get_song_info" /\ file_type = "mp3") =>
        /\ err = "none"
        /\ ret.title = id3.TIT2
        /\ ret.artist = id3.TPE1
        /\ ret.album = id3.TALB
        /\ ret.genre = id3.TCON

\* C9: get_lyrics on a FLAC file returns the first LYRICS value when the key
\* is there, else the first DESCRIPTION value when that key is there, else
\* nothing; set_lyrics(t) sets LYRICS to t alone and leaves DESCRIPTION as it
\* was, so the next get_lyrics returns t.
C9_FlacLyricsOrder ==
    /\ []((op = "get_lyrics" /\ file_type = "flac" /\ err = "none") =>
            ret = (IF vc.LYRICS # << >> THEN Lyrics(vc.LYRICS[1], "eng")
                   ELSE IF vc.DESCRIPTION # << >>
                        THEN Lyrics(vc.DESCRIPTION[1], "eng")
                        ELSE NoLyrics))
    /\ [][(op' = "set_lyrics" /\ file_type = "flac" /\ err' = "none") =>
            /\ vc'.LYRICS = <<arg'.text>>
            /\ vc'.DESCRIPTION = vc.DESCRIPTION]_vars
    /\ [][(/\ op = "set_lyrics"
           /\ file_type = "flac"
           /\ err = "none"
           /\ op' = "get_lyrics"
           /\ err' = "none") => ret' = Lyrics(arg.text, "eng")]_vars

\* get_lyrics after set_lyrics("W1") on a file that had only DESCRIPTION.
C9_Witness ==
    /\ op = "get_lyrics"
    /\ file_type = "flac"
    /\ err = "none"
    /\ vc.LYRICS = <<"W1">>
    /\ vc.DESCRIPTION = <<"D0">>
    /\ ret = Lyrics("W1", "eng")

\* C10: a read leaves the file as it was and changes nothing of the handle
\* but, at most, _audio from not loaded to loaded; no call changes the
\* handle's format or path.
C10_ReadsAreFrameClean ==
    [][/\ op' \in Reads =>
            /\ UNCHANGED disk
            /\ \/ _audio' = _audio
               \/ ~_audio.loaded /\ _audio' = MutagenFile(file_type, id3, vc)
       /\ op' # "__init__" =>
            /\ file_type' = file_type
            /\ file_path' = file_path
            /\ hstate' = hstate]_vars

\* A read on a handle whose cached object a write has changed.
C10_Witness ==
    /\ op \in Reads
    /\ err = "none"
    /\ _audio.loaded
    /\ _audio.info.title = "T1"

Spec == Init /\ [][Next]_vars

====
